---- MODULE Spec2Model ----
(***************************************************************************)
(* Game catalog service (game-service/index.js): the relational store, the *)
(* Redis read-through cache with explicit invalidation, and the Solr index *)
(* that the write path reconciles with fire-and-forget calls.              *)
(*                                                                         *)
(* Spec runs the HTTP/GraphQL handlers one request at a time (requests do  *)
(* not overlap); the index calls a handler leaves in flight are delivered  *)
(* by SolrDeliver at any later moment.  Every backend call of a handler    *)
(* may fail; which ones do is an input of the handler's action.            *)
(***************************************************************************)
EXTENDS Integers, Sequences, FiniteSets, TLC

\* ------------------------------------------------------------------ bounds
MaxId      == 2   \* rows ever inserted (SERIAL ids 1..MaxId)
MaxWrites  == 2   \* committed store writes in one behaviour
MaxPending == 1   \* index reconciliations in flight at once
MaxInFlight == 2   \* index reconciliations in flight when writes overlap

Titles       == {"A", "B"}
PriceInputs  == {-1, 0, 1}
RatingInputs == {5, 11}
Tokens       == {"none", "bad", "GUEST", "USER", "ADMIN"}

\* An optional value (undefined / null in the code) is a set of at most one.
None        == {}
Some(x)     == {x}
Val(o)      == CHOOSE x \in o : TRUE
Opt(S)      == {None} \cup {Some(x) : x \in S}

\* ------------------------------------------------------------------ state
VARIABLES
  db,       \* games table: id -> row, for the ids present
  nextId,   \* the SERIAL sequence of games.id
  cache,    \* Redis: key -> [val, ttl, age], for the keys present
  solr,     \* Solr collection: id -> document, for the ids present
  pending,  \* index reconciliations in flight: sequences of update calls
  writes,   \* committed store writes so far
  lastWrite,\* the last request that committed a store write
  last,     \* the last completed request: what was asked, answered and called
  inflight, \* the request that is between two of its awaits, if any
  expired,  \* the keys Redis has dropped at the end of their TTL
  indexDown \* Solr is unreachable: every call to it fails

vars == <<db, nextId, cache, solr, pending, writes, lastWrite, last, inflight, expired,
          indexDown>>

\* ------------------------------------------------------------------ values
Ids == 1..MaxId

\* Redis keys and key patterns are strings.
ListPattern   == "games:list:*"
SearchPattern == "games:search:*"

\* One backend call of a handler, in issue order.
\* err: "" when the call succeeded, the SQLSTATE when the store refused the
\* statement, "failed" when the backend could not be reached.
Call(c, ok)       == [c |-> c, ok |-> ok, err |-> IF ok THEN "" ELSE "failed"]
Refused(c, state) == [c |-> c, ok |-> FALSE, err |-> state]

\* redisClient.keys(pattern)
KeysCall(pattern, ok) ==
  [c |-> "cache.keys", ok |-> ok, err |-> IF ok THEN "" ELSE "failed", pattern |-> pattern]

\* buildHateoasLinks
buildHateoasLinks(gameId) == [self |-> gameId, update |-> gameId, delete |-> gameId]

\* formatGameResponse: the row plus its links
formatGameResponse(game) ==
  [id |-> game.id, title |-> game.title, genre |-> game.genre, price |-> game.price,
   platform |-> game.platform, rating |-> game.rating, created_at |-> game.created_at,
   links |-> buildHateoasLinks(game.id)]

\* A timestamp column comes out of the store as a Date object; JSON text
\* holds it as an ISO string, and JSON.parse leaves the string a string.
Date(n)        == <<"Date", n>>
toISOString(v) == IF v[1] = "Date" THEN <<"ISO", v[2]>> ELSE v

\* JSON.stringify of one element of a response's data
JSONgame(g) ==
  IF "created_at" \in DOMAIN g THEN [g EXCEPT !.created_at = toISOString(@)] ELSE g

\* JSON.stringify / JSON.parse of a list or search response: Redis holds the
\* text, and res.json sends the text
JSONstringify(v) == [json |-> [v EXCEPT !.data = [i \in DOMAIN @ |-> JSONgame(@[i])]]]
JSONparse(s)     == s.json

\* ------------------------------------------------------------------ cache helpers
\* redisClient.keys(pattern) for the patterns 'games:list:*', 'games:search:*'
Matches(key, pattern) ==
  LET prefix == SubSeq(pattern, 1, Len(pattern) - 1)
  IN  /\ Len(key) >= Len(prefix)
      /\ SubSeq(key, 1, Len(prefix)) = prefix

keysMatching(c, pattern) == {k \in DOMAIN c : Matches(k, pattern)}

\* a getCache that answers from the stored entry whatever the backend said
getCacheServesOnFailure(c, key, ok) ==
  IF key \in DOMAIN c THEN Some(JSONparse(c[key].val)) ELSE None

\* getCache: a backend failure and an absent key both give null
getCache(c, key, ok) ==
  IF ok /\ key \in DOMAIN c THEN Some(JSONparse(c[key].val)) ELSE None

\* a setCache that calls set instead of setEx: the entry never expires
setCacheDropsTtl(c, key, value, ttl, ok) ==
  IF ok
    THEN [k \in DOMAIN c \cup {key} |->
            IF k = key THEN [val |-> JSONstringify(value), ttl |-> -1, age |-> 0] ELSE c[k]]
    ELSE c

\* a setCache that never reaches Redis
setCacheSkips(c, key, value, ttl, ok) == c

\* setCache: setEx(key, ttl, text); a backend failure is logged and dropped.
\* ttl is the time the entry has left, age the time since it was set.
setCache(c, key, value, ttl, ok) ==
  IF ok
    THEN [k \in DOMAIN c \cup {key} |->
            IF k = key THEN [val |-> JSONstringify(value), ttl |-> ttl, age |-> 0]
                       ELSE c[k]]
    ELSE c

\* a del that removes nothing
delKeysKeepsAll(c, keys) == c

\* redisClient.del(keys)
delKeys(c, keys) == [k \in DOMAIN c \ keys |-> c[k]]

\* invalidateCache: for each pattern, keys() then del() when any key matched;
\* the try/catch encloses the loop, so the first failing call ends the purge.
\* cf is the set of failing cache calls of the request, n the number of the
\* next cache call.  threw: an exception leaves the function (never, here).
\* invalidateCache catching the failure of one pattern and going on to the next
RECURSIVE invalidateCacheContinues(_, _, _, _)
invalidateCacheContinues(c, patterns, cf, n) ==
  IF patterns = <<>> THEN [cache |-> c, calls |-> <<>>, threw |-> FALSE]
  ELSE
    LET keys == keysMatching(c, Head(patterns)) IN
    IF n \in cf
      THEN LET r == invalidateCacheContinues(c, Tail(patterns), cf, n + 1)
           IN  [cache |-> r.cache, calls |-> <<KeysCall(Head(patterns), FALSE)>> \o r.calls,
                threw |-> r.threw]
    ELSE IF keys = {}
      THEN LET r == invalidateCacheContinues(c, Tail(patterns), cf, n + 1)
           IN  [cache |-> r.cache, calls |-> <<KeysCall(Head(patterns), TRUE)>> \o r.calls,
                threw |-> r.threw]
    ELSE IF (n + 1) \in cf
      THEN LET r == invalidateCacheContinues(c, Tail(patterns), cf, n + 2)
           IN  [cache |-> r.cache,
                calls |-> <<KeysCall(Head(patterns), TRUE), Call("cache.del", FALSE)>>
                          \o r.calls,
                threw |-> r.threw]
    ELSE LET r == invalidateCacheContinues(delKeys(c, keys), Tail(patterns), cf, n + 2)
         IN  [cache |-> r.cache,
              calls |-> <<KeysCall(Head(patterns), TRUE), Call("cache.del", TRUE)>> \o r.calls,
              threw |-> r.threw]

RECURSIVE invalidateCache(_, _, _, _)
\* a purge without the try/catch: the failure of its first call leaves it
invalidateCacheRethrows(c, patterns, cf, n) ==
  [cache |-> c, calls |-> <<Call("cache.keys", n \notin cf)>>, threw |-> n \in cf]

invalidateCache(c, patterns, cf, n) ==
  IF patterns = <<>> THEN [cache |-> c, calls |-> <<>>, threw |-> FALSE]
  ELSE
    LET keys == keysMatching(c, Head(patterns)) IN
    IF n \in cf
      THEN [cache |-> c, calls |-> <<KeysCall(Head(patterns), FALSE)>>, threw |-> FALSE]
    ELSE IF keys = {}
      THEN LET r == invalidateCache(c, Tail(patterns), cf, n + 1)
           IN  [cache |-> r.cache, calls |-> <<KeysCall(Head(patterns), TRUE)>> \o r.calls,
                threw |-> r.threw]
    ELSE IF (n + 1) \in cf
      THEN [cache |-> c,
            calls |-> <<KeysCall(Head(patterns), TRUE), Call("cache.del", FALSE)>>,
            threw |-> FALSE]
    ELSE LET r == invalidateCache(delKeys(c, keys), Tail(patterns), cf, n + 2)
         IN  [cache |-> r.cache,
              calls |-> <<KeysCall(Head(patterns), TRUE), Call("cache.del", TRUE)>> \o r.calls,
              threw |-> r.threw]

\* ------------------------------------------------------------------ store queries
Max(a, b) == IF a > b THEN a ELSE b
Min(a, b) == IF a < b THEN a ELSE b

\* ORDER BY created_at DESC: rows are created in id order, newest first
RECURSIVE IdsDesc(_)
IdsDesc(S) ==
  IF S = {} THEN <<>>
  ELSE LET m == CHOOSE x \in S : \A y \in S : y <= x
       IN  <<m>> \o IdsDesc(S \ {m})

\* SELECT COUNT(*) FROM games
CountGames(d) == Cardinality(DOMAIN d)

\* SELECT * FROM games ORDER BY created_at DESC LIMIT limit OFFSET offset
SelectPage(d, limit, offset) ==
  LET all == IdsDesc(DOMAIN d)
      ids == IF offset >= Len(all) \/ limit <= 0 \/ offset < 0 THEN <<>>
             ELSE SubSeq(all, offset + 1, Min(Len(all), offset + limit))
  IN  [i \in 1..Len(ids) |-> d[ids[i]]]

\* the UNIQUE constraint on title, for a row written under id
TitleTaken(d, title, id) == \E j \in DOMAIN d : j # id /\ d[j].title = title

\* CHECK (rating >= 0 AND rating <= 10); NULL passes
RatingCheck(r) == r = None \/ (Val(r) >= 0 /\ Val(r) <= 10)

\* ------------------------------------------------------------------ responses
\* What a handler did: the answer, the state it leaves and the calls it made.
Out(status, body, d, c, tasks, calls) ==
  [status |-> status, body |-> body, db |-> d, cache |-> c, tasks |-> tasks,
   calls |-> calls]

Error(text) == [error |-> text]

DefaultLimit == 10
ListTTL      == 60

\* parseInt(req.query.limit) || 10 and parseInt(req.query.offset) || 0
ListLimit(q)  == IF q = None \/ Val(q) = 0 THEN DefaultLimit ELSE Val(q)
ListOffset(q) == IF q = None THEN 0 ELSE Val(q)

\* `games:list:${limit}:${offset}`
ListKey(limit, offset) == "games:list:" \o ToString(limit) \o ":" \o ToString(offset)

\* PostgreSQL refuses a negative LIMIT or OFFSET: the page query throws
PageQueryRefused(limit, offset) == limit < 0 \/ offset < 0

\* the response with the next link computed by <= instead of <
ListResponseNextAtEnd(d, limit, offset) ==
  LET total == CountGames(d)
      rows  == SelectPage(d, limit, offset)
  IN  [data |-> [i \in 1..Len(rows) |-> formatGameResponse(rows[i])],
       pagination |-> [limit |-> limit, offset |-> offset, total |-> total],
       links |-> [next |-> IF offset + limit <= total THEN Some(offset + limit) ELSE None,
                  prev |-> IF offset > 0 THEN Some(Max(0, offset - limit)) ELSE None]]

\* the response object of GET /api/v1/games
ListResponse(d, limit, offset) ==
  LET total == CountGames(d)
      rows  == SelectPage(d, limit, offset)
  IN  [data |-> [i \in 1..Len(rows) |-> formatGameResponse(rows[i])],
       pagination |-> [limit |-> limit, offset |-> offset, total |-> total],
       links |-> [next |-> IF offset + limit < total THEN Some(offset + limit) ELSE None,
                  prev |-> IF offset > 0 THEN Some(Max(0, offset - limit)) ELSE None]]

\* the route storing what it has when its page query fails
GetGamesOutCachesPartial(d, c, lq, oq, dbf, cf) ==
  LET limit  == ListLimit(lq)
      offset == ListOffset(oq)
      key    == ListKey(limit, offset)
      cached == getCache(c, key, 1 \notin cf)
      get    == Call("cache.get", 1 \notin cf)
      response == ListResponse(d, limit, offset)
      partial  == [response EXCEPT !.data = <<>>]
  IN
  IF cached # None THEN Out("200", Val(cached), d, c, {}, <<get>>)
  ELSE IF dbf = 1
    THEN Out("500", Error("Internal server error"), d, c, {},
             <<get, Call("db.count", FALSE)>>)
  ELSE IF dbf = 2 \/ PageQueryRefused(limit, offset)
    THEN Out("500", Error("Internal server error"), d,
             setCache(c, key, partial, ListTTL, 2 \notin cf), {},
             <<get, Call("db.count", TRUE), Call("db.page", FALSE)>>)
  ELSE Out("200", response, d, setCache(c, key, response, ListTTL, 2 \notin cf), {},
           <<get, Call("db.count", TRUE), Call("db.page", TRUE),
             Call("cache.set", 2 \notin cf)>>)

\* GET /api/v1/games.  cf: 1 = the get fails, 2 = the set fails;
\* dbf: 1 = the COUNT query fails, 2 = the page query fails.
GetGamesOut(d, c, lq, oq, dbf, cf) ==
  LET limit  == ListLimit(lq)
      offset == ListOffset(oq)
      key    == ListKey(limit, offset)
      cached == getCache(c, key, 1 \notin cf)
      get    == Call("cache.get", 1 \notin cf)
  IN
  IF cached # None THEN Out("200", Val(cached), d, c, {}, <<get>>)
  ELSE IF dbf = 1
    THEN Out("500", Error("Internal server error"), d, c, {},
             <<get, Call("db.count", FALSE)>>)
  ELSE IF dbf = 2 \/ PageQueryRefused(limit, offset)
    THEN Out("500", Error("Internal server error"), d, c, {},
             <<get, Call("db.count", TRUE), Call("db.page", FALSE)>>)
  ELSE LET response == ListResponse(d, limit, offset)
       IN  Out("200", response, d, setCache(c, key, response, ListTTL, 2 \notin cf), {},
               <<get, Call("db.count", TRUE), Call("db.page", TRUE),
                 Call("cache.set", 2 \notin cf)>>)


\* GET /api/v1/games/:id reads the store and never the cache.
GetGameOut(d, c, id, dbf) ==
  IF dbf = 1
    THEN Out("500", Error("Internal server error"), d, c, {}, <<Call("db.select", FALSE)>>)
  ELSE IF id \notin DOMAIN d
    THEN Out("404", Error("Game not found"), d, c, {}, <<Call("db.select", TRUE)>>)
  ELSE Out("200", formatGameResponse(d[id]), d, c, {}, <<Call("db.select", TRUE)>>)

\* ------------------------------------------------------------------ index calls
\* game.id.toString() and parseInt(doc.id)
IdString(id) == ToString(id)
ParseId(s)   == CHOOSE n \in 1..(MaxId + 1) : ToString(n) = s

\* the document indexGameInSolr builds: a NULL rating is indexed as 0
SolrDoc(game) ==
  [id |-> IdString(game.id), title |-> game.title, genre |-> game.genre,
   price |-> game.price, platform |-> game.platform,
   rating |-> IF game.rating = None THEN 0 ELSE Val(game.rating)]

AddOp(game) == [op |-> "add", id |-> IdString(game.id), doc |-> SolrDoc(game)]
DelOp(id)   == [op |-> "delete", id |-> IdString(id)]

\* The calls a reconciliation still has to make, in order.
indexGameInSolr(game)    == <<AddOp(game)>>
deleteGameFromSolr(id)   == <<DelOp(id)>>
updateGameInSolrAddFirst(game) == indexGameInSolr(game) \o deleteGameFromSolr(game.id)
updateGameInSolr(game)   == deleteGameFromSolr(game.id) \o indexGameInSolr(game)

\* ------------------------------------------------------------------ validation
\* JavaScript truthiness of an optional number and of an optional string
TruthyNum(o) == o # None /\ Val(o) # 0
TruthyStr(o) == o # None /\ Val(o) # ""

\* !title || !genre || !price || !platform
MissingRequired(req) ==
  \/ ~TruthyStr(req.title)
  \/ ~TruthyStr(req.genre)
  \/ ~TruthyNum(req.price)
  \/ ~TruthyStr(req.platform)

\* isNaN(price) || price < 0
BadPrice(req) == Val(req.price) < 0

\* rating && (isNaN(rating) || rating < 0 || rating > 10)
BadRating(req) == TruthyNum(req.rating) /\ (Val(req.rating) < 0 \/ Val(req.rating) > 10)

\* the row INSERT ... RETURNING * gives: rating || null
InsertedRow(id, req) ==
  [id |-> id, title |-> Val(req.title), genre |-> Val(req.genre),
   price |-> Val(req.price), platform |-> Val(req.platform),
   rating |-> IF TruthyNum(req.rating) THEN req.rating ELSE None,
   created_at |-> Date(id)]

PutRow(d, id, row) == [k \in DOMAIN d \cup {id} |-> IF k = id THEN row ELSE d[k]]
DelRow(d, id)      == [k \in DOMAIN d \ {id} |-> d[k]]

WritePatterns == <<ListPattern, SearchPattern>>


\* ------------------------------------------------------------------ write handlers
\* POST /api/v1/games, behind requireAuth and authorizeAdmin.
\* dbf: 1 = the INSERT fails; cf: the failing calls of invalidateCache.
PostGameOut(d, c, nid, req, dbf, cf) ==
  IF MissingRequired(req)
    THEN Out("400", Error("Title, genre, price, and platform are required"), d, c, {}, <<>>)
  ELSE IF BadPrice(req)
    THEN Out("400", Error("Price must be a positive number"), d, c, {}, <<>>)
  ELSE IF BadRating(req)
    THEN Out("400", Error("Rating must be between 0 and 10"), d, c, {}, <<>>)
  ELSE IF dbf = 1
    THEN Out("500", Error("Internal server error"), d, c, {}, <<Call("db.insert", FALSE)>>)
  ELSE IF TitleTaken(d, Val(req.title), nid)
    THEN Out("409", Error("Game title already exists"), d, c, {},
             <<Refused("db.insert", "23505")>>)
  ELSE
    LET row == InsertedRow(nid, req)
        d2  == PutRow(d, nid, row)
        inv == invalidateCache(c, WritePatterns, cf, 1)
        calls == <<Call("db.insert", TRUE), Call("solr.add", TRUE)>> \o inv.calls
    IN  IF inv.threw
          THEN Out("500", Error("Internal server error"), d2, inv.cache,
                   {indexGameInSolr(row)}, calls)
          ELSE Out("201", [message |-> "Game created successfully",
                           data |-> formatGameResponse(row)],
                   d2, inv.cache, {indexGameInSolr(row)}, calls)

\* the row UPDATE ... SET <the fields given> WHERE id = $n RETURNING * gives
UpdatedRow(old, req) ==
  [id |-> old.id, genre |-> old.genre, platform |-> old.platform,
   title  |-> IF req.title  # None THEN Val(req.title) ELSE old.title,
   price  |-> IF req.price  # None THEN Val(req.price) ELSE old.price,
   rating |-> IF req.rating # None THEN req.rating     ELSE old.rating,
   created_at |-> old.created_at]

\* updateFields.length === 0
NoFields(req) == req.title = None /\ req.price = None /\ req.rating = None

\* PUT /api/v1/games/:id from the answer of its SELECT on: the row was there
\* when the SELECT ran.  An UPDATE that matches no row (the row was deleted
\* since) returns no row, and formatGameResponse(undefined) throws a
\* TypeError, which the catch block answers with 500.
\* dbf: 2 = the UPDATE fails.
PutGameUpdateOut(d, c, id, req, dbf, cf) ==
  IF NoFields(req)
    THEN Out("400", Error("No fields to update"), d, c, {}, <<Call("db.select", TRUE)>>)
  ELSE IF dbf = 2
    THEN Out("500", Error("Internal server error"), d, c, {},
             <<Call("db.select", TRUE), Call("db.update", FALSE)>>)
  ELSE IF id \notin DOMAIN d
    THEN Out("500", Error("Internal server error"), d, c, {},
             <<Call("db.select", TRUE), Call("db.update", TRUE)>>)
  ELSE
    LET row == UpdatedRow(d[id], req) IN
    IF ~RatingCheck(row.rating)
      THEN Out("500", Error("Internal server error"), d, c, {},
               <<Call("db.select", TRUE), Refused("db.update", "23514")>>)
    ELSE IF TitleTaken(d, row.title, id)
      THEN Out("409", Error("Game title already exists"), d, c, {},
               <<Call("db.select", TRUE), Refused("db.update", "23505")>>)
    ELSE
      LET d2  == PutRow(d, id, row)
          inv == invalidateCache(c, WritePatterns, cf, 1)
          calls == <<Call("db.select", TRUE), Call("db.update", TRUE),
                     Call("solr.delete", TRUE)>> \o inv.calls
      IN  IF inv.threw
            THEN Out("500", Error("Internal server error"), d2, inv.cache,
                     {updateGameInSolr(row)}, calls)
            ELSE Out("200", [message |-> "Game updated successfully",
                             data |-> formatGameResponse(row)],
                     d2, inv.cache, {updateGameInSolr(row)}, calls)

\* an update route that purges the cache before it runs the UPDATE
PutGameOutPurgesFirst(d, c, id, req, dbf, cf) ==
  LET inv == invalidateCache(c, WritePatterns, cf, 1) IN
  IF id \notin DOMAIN d
    THEN Out("404", Error("Game not found"), d, c, {}, <<Call("db.select", TRUE)>>)
  ELSE IF TitleTaken(d, UpdatedRow(d[id], req).title, id)
    THEN Out("409", Error("Game title already exists"), d, inv.cache, {},
             <<Call("db.select", TRUE)>> \o inv.calls \o <<Refused("db.update", "23505")>>)
  ELSE Out("200", [message |-> "Game updated successfully",
                   data |-> formatGameResponse(UpdatedRow(d[id], req))],
           PutRow(d, id, UpdatedRow(d[id], req)), inv.cache,
           {updateGameInSolr(UpdatedRow(d[id], req))},
           <<Call("db.select", TRUE)>> \o inv.calls
             \o <<Call("db.update", TRUE), Call("solr.delete", TRUE)>>)

\* PUT /api/v1/games/:id.  dbf: 1 = the SELECT fails, 2 = the UPDATE fails.
PutGameOut(d, c, id, req, dbf, cf) ==
  IF dbf = 1
    THEN Out("500", Error("Internal server error"), d, c, {}, <<Call("db.select", FALSE)>>)
  ELSE IF id \notin DOMAIN d
    THEN Out("404", Error("Game not found"), d, c, {}, <<Call("db.select", TRUE)>>)
  ELSE PutGameUpdateOut(d, c, id, req, dbf, cf)

\* a delete route that skips the existence check
DeleteGameOutUnchecked(d, c, id, dbf, cf) ==
  LET inv == invalidateCache(c, WritePatterns, cf, 1)
  IN  Out("200", [message |-> "Game deleted successfully", deletedId |-> id],
          DelRow(d, id), inv.cache, {deleteGameFromSolr(id)},
          <<Call("db.delete", TRUE), Call("solr.delete", TRUE)>> \o inv.calls)

\* DELETE /api/v1/games/:id.  dbf: 1 = the SELECT fails, 2 = the DELETE fails.
DeleteGameOut(d, c, id, dbf, cf) ==
  IF dbf = 1
    THEN Out("500", Error("Internal server error"), d, c, {}, <<Call("db.select", FALSE)>>)
  ELSE IF id \notin DOMAIN d
    THEN Out("404", Error("Game not found"), d, c, {}, <<Call("db.select", TRUE)>>)
  ELSE IF dbf = 2
    THEN Out("500", Error("Internal server error"), d, c, {},
             <<Call("db.select", TRUE), Call("db.delete", FALSE)>>)
  ELSE
    LET d2  == DelRow(d, id)
        inv == invalidateCache(c, WritePatterns, cf, 1)
        calls == <<Call("db.select", TRUE), Call("db.delete", TRUE),
                   Call("solr.delete", TRUE)>> \o inv.calls
    IN  IF inv.threw
          THEN Out("500", Error("Internal server error"), d2, inv.cache,
                   {deleteGameFromSolr(id)}, calls)
          ELSE Out("200", [message |-> "Game deleted successfully", deletedId |-> id],
                   d2, inv.cache, {deleteGameFromSolr(id)}, calls)

\* DELETE after its SELECT found the row: the DELETE statement, whose row
\* count is not looked at, and the rest.  dbf: 2 = the DELETE fails.
DeleteGameDeleteOut(d, c, id, dbf, cf) ==
  IF dbf = 2
    THEN Out("500", Error("Internal server error"), d, c, {},
             <<Call("db.select", TRUE), Call("db.delete", FALSE)>>)
  ELSE
    LET d2  == DelRow(d, id)
        inv == invalidateCache(c, WritePatterns, cf, 1)
        calls == <<Call("db.select", TRUE), Call("db.delete", TRUE),
                   Call("solr.delete", TRUE)>> \o inv.calls
    IN  Out("200", [message |-> "Game deleted successfully", deletedId |-> id],
            d2, inv.cache, {deleteGameFromSolr(id)}, calls)

\* GraphQL Mutation.createGame: every failure leaves the resolver as
\* Error(`Failed to create game: ${err.message}`); the cache is not touched.
GqlError(text) == [errors |-> text]

CreateGameOut(d, c, nid, user, req, dbf) ==
  IF user # "ADMIN"
    THEN Out("error", GqlError("Admin access required"), d, c, {}, <<>>)
  ELSE IF MissingRequired(req)
    THEN Out("error", GqlError("Title, genre, price, and platform are required"), d, c, {}, <<>>)
  ELSE IF BadPrice(req)
    THEN Out("error", GqlError("Price must be a positive number"), d, c, {}, <<>>)
  ELSE IF BadRating(req)
    THEN Out("error", GqlError("Rating must be between 0 and 10"), d, c, {}, <<>>)
  ELSE IF dbf = 1
    THEN Out("error", GqlError("connection terminated"), d, c, {}, <<Call("db.insert", FALSE)>>)
  ELSE IF TitleTaken(d, Val(req.title), nid)
    THEN Out("error", GqlError("duplicate key value violates unique constraint"), d, c, {},
             <<Refused("db.insert", "23505")>>)
  ELSE
    LET row == InsertedRow(nid, req)
    IN  Out("data", [message |-> "Game created successfully",
                     data |-> formatGameResponse(row)],
            PutRow(d, nid, row), c, {indexGameInSolr(row)},
            <<Call("db.insert", TRUE), Call("solr.add", TRUE)>>)


\* ------------------------------------------------------------------ search
\* req.query of GET /api/v1/games/search: every parameter is optional text
\* (limit and offset are kept as the numbers their digits spell).
SearchReq(q, genre, platform, priceMin, priceMax, ratingMin, sort, limit, offset) ==
  [q |-> q, genre |-> genre, platform |-> platform, priceMin |-> priceMin,
   priceMax |-> priceMax, ratingMin |-> ratingMin, sort |-> sort,
   limit |-> limit, offset |-> offset]

\* the destructuring defaults: q = '*', limit = 10, offset = 0
DefaultQuery == "*"
QueryText(p)    == IF p.q = None THEN DefaultQuery ELSE Val(p.q)
SearchLimit(p)  == IF p.limit = None THEN DefaultLimit ELSE Val(p.limit)
SearchOffset(p) == IF p.offset = None THEN 0 ELSE Val(p.offset)

\* x || 'default' for an optional string
OrElse(o, default) == IF o = None \/ Val(o) = "" THEN default ELSE Val(o)

\* `games:search:${q}:${genre || 'all'}:${platform || 'all'}:${priceMin || '0'}:
\*  ${priceMax || 'inf'}:${ratingMin || '0'}:${sort || 'default'}:${limit}:${offset}`
SearchKey(p) ==
  "games:search:" \o QueryText(p)
    \o ":" \o OrElse(p.genre, "all") \o ":" \o OrElse(p.platform, "all")
    \o ":" \o OrElse(p.priceMin, "0") \o ":" \o OrElse(p.priceMax, "inf")
    \o ":" \o OrElse(p.ratingMin, "0") \o ":" \o OrElse(p.sort, "default")
    \o ":" \o ToString(SearchLimit(p)) \o ":" \o ToString(SearchOffset(p))

\* a sortParam that takes a query of up to 3 characters for a short one
sortParamShortUpTo3(q, sort) ==
  IF sort = Some("price_asc") THEN "price asc"
  ELSE IF sort = Some("price_desc") THEN "price desc"
  ELSE IF sort = Some("rating_desc") THEN "rating desc"
  ELSE IF sort = Some("title_asc") THEN "title asc"
  ELSE IF q = "*" \/ Len(q) <= 3 THEN "rating desc"
  ELSE "score desc"

\* sortParam: the default by the query text, then the explicit sort
sortParam(q, sort) ==
  IF sort = Some("price_asc") THEN "price asc"
  ELSE IF sort = Some("price_desc") THEN "price desc"
  ELSE IF sort = Some("rating_desc") THEN "rating desc"
  ELSE IF sort = Some("title_asc") THEN "title asc"
  ELSE IF q = "*" \/ Len(q) < 3 THEN "rating desc"
  ELSE "score desc"

\* x != null && x !== ''
Given(o) == o # None /\ Val(o) # ""

\* filters: the fq clauses, in the order the handler pushes them
filters(p) ==
  (IF Given(p.genre) THEN <<"genre:\"" \o Val(p.genre) \o "\"">> ELSE <<>>)
  \o (IF Given(p.platform) THEN <<"platform:\"" \o Val(p.platform) \o "\"">> ELSE <<>>)
  \o (IF Given(p.priceMin) THEN <<"price:[" \o Val(p.priceMin) \o " TO *]">> ELSE <<>>)
  \o (IF Given(p.priceMax) THEN <<"price:[* TO " \o Val(p.priceMax) \o "]">> ELSE <<>>)
  \o (IF Given(p.ratingMin) THEN <<"rating:[" \o Val(p.ratingMin) \o " TO *]">> ELSE <<>>)

\* solrParams: what the handler sends to /select
solrParams(p) ==
  [q |-> IF QueryText(p) = "*" THEN "*:*" ELSE QueryText(p) \o "*",
   rows |-> SearchLimit(p), start |-> SearchOffset(p),
   sort |-> sortParam(QueryText(p), p.sort), fq |-> filters(p)]

SolrSelectCall(p, ok) ==
  [c |-> "solr.select", ok |-> ok, err |-> IF ok THEN "" ELSE "failed",
   params |-> solrParams(p)]

RECURSIVE Orderings(_)
Orderings(S) ==
  IF S = {} THEN {<<>>}
  ELSE UNION {{<<x>> \o rest : rest \in Orderings(S \ {x})} : x \in S}

\* the number a parameter's digits spell
ParseNum(s) == CHOOSE n \in -1..11 : ToString(n) = s

\* Solr's answer to the query of request p.  A query text other than '*'
\* matches the documents whose title starts with it; a filter keeps the
\* documents with that field value or in that range.
StartsWith(text, q) == Len(q) <= Len(text) /\ SubSeq(text, 1, Len(q)) = q

SolrMatches(doc, p) ==
  /\ QueryText(p) = "*" \/ StartsWith(doc.title, QueryText(p))
  /\ Given(p.genre) => doc.genre = Val(p.genre)
  /\ Given(p.platform) => doc.platform = Val(p.platform)
  /\ Given(p.priceMin) => doc.price >= ParseNum(Val(p.priceMin))
  /\ Given(p.priceMax) => doc.price <= ParseNum(Val(p.priceMax))
  /\ Given(p.ratingMin) => doc.rating >= ParseNum(Val(p.ratingMin))

TitleOrder == <<"A", "B">>
TitleRank(t) == CHOOSE i \in DOMAIN TitleOrder : TitleOrder[i] = t

\* documents a, b may stand in this order under the sort; Solr leaves the
\* order of equal keys, and the order by score, open
InOrder(a, b, sort) ==
  CASE sort = "rating desc" -> a.rating >= b.rating
    [] sort = "price asc"   -> a.price <= b.price
    [] sort = "price desc"  -> a.price >= b.price
    [] sort = "title asc"   -> TitleRank(a.title) <= TitleRank(b.title)
    [] OTHER                -> TRUE

Page(o, start, rows) ==
  IF start >= Len(o) \/ start < 0 \/ rows <= 0 THEN <<>>
  ELSE SubSeq(o, start + 1, Min(Len(o), start + rows))

SolrSelect(index, p) ==
  LET matched == {index[k] : k \in {j \in DOMAIN index : SolrMatches(index[j], p)}}
      sort    == sortParam(QueryText(p), p.sort)
  IN  {[docs |-> Page(o, SearchOffset(p), SearchLimit(p)),
        numFound |-> Cardinality(matched)] :
         o \in {x \in Orderings(matched) :
                  \A i \in 1..(Len(x) - 1) : InOrder(x[i], x[i + 1], sort)}}

\* Solr refuses a negative rows or start with status 400: axios throws
SelectRefused(p) == SearchLimit(p) < 0 \/ SearchOffset(p) < 0

\* the response object of GET /api/v1/games/search
SearchResponse(docs, numFound, q, limit, offset) ==
  [data |-> [i \in 1..Len(docs) |->
               [id |-> ParseId(docs[i].id), title |-> docs[i].title,
                genre |-> docs[i].genre, platform |-> docs[i].platform,
                price |-> docs[i].price, rating |-> docs[i].rating,
                links |-> buildHateoasLinks(ParseId(docs[i].id))]],
   pagination |-> [limit |-> limit, offset |-> offset, total |-> numFound],
   links |-> [next |-> IF offset + limit < numFound THEN Some(offset + limit) ELSE None,
              prev |-> IF offset > 0 THEN Some(Max(0, offset - limit)) ELSE None]]

\* the route caching its results for two TTLs
SearchGamesOutLongTtl(d, c, p, ans, sf, cf) ==
  LET key    == SearchKey(p)
      cached == getCache(c, key, 1 \notin cf)
      get    == Call("cache.get", 1 \notin cf)
  IN
  IF cached # None THEN Out("200", Val(cached), d, c, {}, <<get>>)
  ELSE IF sf \/ SelectRefused(p)
    THEN Out("500", Error("Search failed"), d, c, {}, <<get, SolrSelectCall(p, FALSE)>>)
  ELSE LET result == SearchResponse(ans.docs, ans.numFound, QueryText(p),
                                    SearchLimit(p), SearchOffset(p))
       IN  Out("200", result, d, setCache(c, key, result, 2 * ListTTL, 2 \notin cf), {},
               <<get, SolrSelectCall(p, TRUE), Call("cache.set", 2 \notin cf)>>)

\* the route answering a failed select with an empty page
SearchGamesOutEmptyOnFailure(d, c, p, ans, sf, cf) ==
  LET key    == SearchKey(p)
      cached == getCache(c, key, 1 \notin cf)
      get    == Call("cache.get", 1 \notin cf)
      result == SearchResponse(IF sf THEN <<>> ELSE ans.docs, IF sf THEN 0 ELSE ans.numFound,
                               QueryText(p), SearchLimit(p), SearchOffset(p))
  IN
  IF cached # None THEN Out("200", Val(cached), d, c, {}, <<get>>)
  ELSE Out("200", result, d, setCache(c, key, result, ListTTL, 2 \notin cf), {},
           <<get, SolrSelectCall(p, ~sf), Call("cache.set", 2 \notin cf)>>)

\* GET /api/v1/games/search.  ans: what Solr answers; sf: the select fails;
\* cf: 1 = the get fails, 2 = the set fails.
SearchGamesOut(d, c, p, ans, sf, cf) ==
  LET key    == SearchKey(p)
      cached == getCache(c, key, 1 \notin cf)
      get    == Call("cache.get", 1 \notin cf)
  IN
  IF cached # None THEN Out("200", Val(cached), d, c, {}, <<get>>)
  ELSE IF sf \/ SelectRefused(p)
    THEN Out("500", Error("Search failed"), d, c, {}, <<get, SolrSelectCall(p, FALSE)>>)
  ELSE LET result == SearchResponse(ans.docs, ans.numFound, QueryText(p),
                                    SearchLimit(p), SearchOffset(p))
       IN  Out("200", result, d, setCache(c, key, result, ListTTL, 2 \notin cf), {},
               <<get, SolrSelectCall(p, TRUE), Call("cache.set", 2 \notin cf)>>)

\* GraphQL Query.searchGames: the same query with sort = 'score desc' as the
\* default argument and filters tested with != null only; no cache; every
\* failure leaves the resolver as Error(`Search failed: ${err.message}`).
filtersQuery(p) ==
  (IF Given(p.genre) THEN <<"genre:\"" \o Val(p.genre) \o "\"">> ELSE <<>>)
  \o (IF Given(p.platform) THEN <<"platform:\"" \o Val(p.platform) \o "\"">> ELSE <<>>)
  \o (IF p.priceMin # None THEN <<"price:[" \o Val(p.priceMin) \o " TO *]">> ELSE <<>>)
  \o (IF p.priceMax # None THEN <<"price:[* TO " \o Val(p.priceMax) \o "]">> ELSE <<>>)
  \o (IF p.ratingMin # None THEN <<"rating:[" \o Val(p.ratingMin) \o " TO *]">> ELSE <<>>)

solrParamsQuery(p) ==
  [q |-> IF QueryText(p) = "*" THEN "*:*" ELSE QueryText(p) \o "*",
   rows |-> SearchLimit(p), start |-> SearchOffset(p),
   sort |-> sortParam(QueryText(p), IF p.sort = None THEN Some("score desc") ELSE p.sort),
   fq |-> filtersQuery(p)]

searchGamesOut(d, c, p, ans, sf) ==
  IF sf
    THEN Out("error", GqlError("Search failed"), d, c, {},
             <<[c |-> "solr.select", ok |-> FALSE, err |-> "failed",
                params |-> solrParamsQuery(p)]>>)
    ELSE Out("data", SearchResponse(ans.docs, ans.numFound, QueryText(p),
                                    SearchLimit(p), SearchOffset(p)),
             d, c, {},
             <<[c |-> "solr.select", ok |-> TRUE, err |-> "",
                params |-> solrParamsQuery(p)]>>)

\* ------------------------------------------------------------------ middleware
\* requireAuth: no token 401, a bad token or a GUEST 403, otherwise next()
requireAuth(token) ==
  IF token = "none" THEN "401"
  ELSE IF token = "bad" \/ token = "GUEST" THEN "403"
  ELSE "next"

\* authorizeAdmin letting every registered account through
authorizeAdminAdmitsUser(user) == IF user \in {"GUEST", "null"} THEN "403" ELSE "next"

\* authorizeAdmin: anything but ADMIN is 403
authorizeAdmin(user) == IF user # "ADMIN" THEN "403" ELSE "next"

\* the route's middleware chain requireAuth, authorizeAdmin: the status it
\* answers with, or "next" when the handler is called; requireAuth leaves the
\* token's payload in req.user
Guard(token) ==
  IF requireAuth(token) # "next" THEN requireAuth(token) ELSE authorizeAdmin(token)

GuardError(token) ==
  IF token = "none" THEN Error("Authentication required. Register or login.")
  ELSE IF token = "bad" THEN Error("Invalid or expired token")
  ELSE IF token = "GUEST"
    THEN Error("This operation requires a registered account. Please register or login.")
  ELSE Error("Admin access required")

\* the answer of a guarded route: the middleware's, or the handler's
Guarded(token, out, d, c) ==
  IF Guard(token) = "next" THEN out ELSE Out(Guard(token), GuardError(token), d, c, {}, <<>>)

\* authenticateToken (GraphQL): no token or a bad one leaves req.user = null
authenticateToken(token) == IF token \in {"none", "bad"} THEN "null" ELSE token

\* ------------------------------------------------------------------ inputs
CreateReq(t, g, p, pl, r) ==
  [title |-> t, genre |-> g, price |-> p, platform |-> pl, rating |-> r]

PutReq(t, p, r) == [title |-> t, price |-> p, rating |-> r]

\* well-formed requests
PlainCreateReqs == {CreateReq(Some(t), Some("RPG"), Some(1), Some("PC"), None) : t \in Titles}
PlainPutReqs    == {PutReq(Some(t), None, None) : t \in Titles}

\* complete requests, and a complete request with one required field left out
CreateReqs ==
  {CreateReq(Some(t), Some("RPG"), Some(p), Some("PC"), r) :
     t \in Titles, p \in PriceInputs, r \in Opt(RatingInputs)}
  \cup {CreateReq(None, Some("RPG"), Some(1), Some("PC"), None),
        CreateReq(Some("A"), None, Some(1), Some("PC"), None),
        CreateReq(Some("A"), Some("RPG"), None, Some("PC"), None),
        CreateReq(Some("A"), Some("RPG"), Some(1), None, None)}

\* update requests that give at most one field
PutReqs ==
  {PutReq(t, None, None) : t \in Opt(Titles)}
  \cup {PutReq(None, Some(p), None) : p \in PriceInputs}
  \cup {PutReq(None, None, Some(r)) : r \in RatingInputs}

ListParams == {None, Some(1)}

\* search requests: no parameter; a genre; a query text; the second page of one
NoParams == SearchReq(None, None, None, None, None, None, None, None, None)
SearchInputs ==
  {NoParams,
   [NoParams EXCEPT !.genre = Some("all")],
   [NoParams EXCEPT !.q = Some("A")],
   [NoParams EXCEPT !.limit = Some(1), !.offset = Some(1)]}

\* pages of the list and of the search: within, at and beyond the result
\* count, and before its start
PageLimits  == {None, Some(1), Some(2)}
PageOffsets == {None, Some(1), Some(2), Some(3), Some(-1)}
PageInputs  ==
  {[NoParams EXCEPT !.limit = l, !.offset = o] : l \in PageLimits, o \in PageOffsets}

\* which backend calls of a request fail: the store (dbf) or the cache (cf)
Env(dbf, cf) == [dbf |-> dbf, cf |-> cf]
Healthy == Env(0, {})
Envs ==
  {Env(f, {}) : f \in 0..2} \cup {Env(0, s) : s \in {{1}, {2}, {3}, {4}, 1..4}}
SearchEnvs == {Healthy, Env(0, {1}), Env(0, {2})}
CacheDown  == Env(0, 1..4)

\* search requests over query texts of every length class and every sort
SortInputs ==
  {[NoParams EXCEPT !.q = q, !.sort = st] :
     q \in Opt({"*", "ab", "abc", "witcher"}),
     st \in Opt({"price_asc", "price_desc", "rating_desc", "title_asc", "newest"})}

\* ------------------------------------------------------------------ actions
CacheCalls == {"cache.get", "cache.set", "cache.keys", "cache.del"}
StoreCalls == {"db.count", "db.page", "db.select", "db.insert", "db.update", "db.delete"}
IndexCalls == {"solr.add", "solr.delete", "solr.select"}

Range(f) == {f[i] : i \in DOMAIN f}

\* every cache call the request made succeeded
CacheOk(calls) == \A x \in Range(calls) : x.c \in CacheCalls => x.ok

\* no request is between two awaits
Idle == [op |-> "none"]

Init ==
  /\ db = <<>>
  /\ nextId = 1
  /\ cache = <<>>
  /\ solr = <<>>
  /\ pending = {}
  /\ writes = 0
  /\ lastWrite = [op |-> "none", id |-> 0, status |-> "", cacheOk |-> TRUE,
                  purged |-> FALSE, age |-> 0]
  /\ expired = {}
  /\ last = [op |-> "none", id |-> 0, req |-> <<>>, status |-> "", body |-> <<>>,
             calls |-> <<>>, changed |-> {}]
  /\ inflight = Idle
  /\ indexDown = FALSE

\* The request completes: its effects on the backends and its answer.
\* last.changed names the backends the request left different.  A request is
\* taken only while the bounds leave room for what it commits (room: the
\* index reconciliations that may be in flight at once).
RespondWithin(op, id, req, out, room) ==
  /\ out.db # db => writes < MaxWrites
  /\ out.tasks # {} => Cardinality(pending) < room
  /\ db' = out.db
  /\ cache' = out.cache
  /\ pending' = pending \cup out.tasks
  /\ writes' = IF out.db # db THEN writes + 1 ELSE writes
  /\ nextId' = IF DOMAIN out.db \ DOMAIN db # {} THEN nextId + 1 ELSE nextId
  /\ lastWrite' = IF out.db # db
                    THEN [op |-> op, id |-> id, status |-> out.status,
                          cacheOk |-> CacheOk(out.calls),
                          purged |-> \E k \in DOMAIN cache \ DOMAIN out.cache :
                                       Matches(k, ListPattern),
                          age |-> 0]
                    ELSE lastWrite
  /\ last' = [op |-> op, id |-> id, req |-> req, status |-> out.status,
              body |-> out.body, calls |-> out.calls,
              changed |-> {b \in {"store", "cache", "index"} :
                             \/ b = "store" /\ out.db # db
                             \/ b = "cache" /\ out.cache # cache
                             \/ b = "index" /\ out.tasks # {}}]
  /\ UNCHANGED <<solr, expired, indexDown>>

\* a handler that runs from request to response with no other request between
Respond(op, id, req, out) ==
  /\ RespondWithin(op, id, req, out, MaxPending)
  /\ UNCHANGED inflight

GetGames(lq, oq, env) ==
  Respond("list", 0, [limit |-> lq, offset |-> oq],
          GetGamesOut(db, cache, lq, oq, env.dbf, env.cf))

GetGame(id, env) ==
  Respond("get", id, <<>>, GetGameOut(db, cache, id, env.dbf))

SearchGames(p, ans, sf, env) ==
  Respond("search", 0, p, SearchGamesOut(db, cache, p, ans, sf, env.cf))

searchGames(p, ans, sf) ==
  Respond("searchGames", 0, p, searchGamesOut(db, cache, p, ans, sf))

PostGame(req, env) ==
  /\ nextId <= MaxId
  /\ Respond("post", nextId, req, PostGameOut(db, cache, nextId, req, env.dbf, env.cf))

PutGame(id, req, env) ==
  /\ Respond("put", id, req, PutGameOut(db, cache, id, req, env.dbf, env.cf))

DeleteGame(id, env) ==
  /\ Respond("delete", id, <<>>, DeleteGameOut(db, cache, id, env.dbf, env.cf))

CreateGame(token, req, env) ==
  /\ nextId <= MaxId
  /\ Respond("createGame", nextId, req,
             CreateGameOut(db, cache, nextId, authenticateToken(token), req, env.dbf))

\* PUT /api/v1/games/:id with other requests running between its awaits:
\* PutSelect is the handler up to the answer of its SELECT, PutUpdate the rest.
PutSelect(id, req, env) ==
  /\ inflight = Idle
  /\ IF env.dbf = 1 \/ id \notin DOMAIN db
       THEN Respond("put", id, req, PutGameOut(db, cache, id, req, env.dbf, env.cf))
       ELSE /\ inflight' = [op |-> "put", id |-> id, req |-> req]
            /\ UNCHANGED <<db, nextId, cache, solr, pending, writes, lastWrite, last, expired,
                           indexDown>>

PutUpdate(env) ==
  /\ inflight.op = "put"
  /\ RespondWithin("put", inflight.id, inflight.req,
                   PutGameUpdateOut(db, cache, inflight.id, inflight.req, env.dbf, env.cf),
                   MaxPending)
  /\ inflight' = Idle

\* GET /api/v1/games with other requests running between its awaits:
\* ListQuery is the handler from its cache miss to the answers of its two
\* store queries, ListSet the rest: setCache and the response.
ListQuery(lq, oq) ==
  /\ inflight = Idle
  /\ getCache(cache, ListKey(ListLimit(lq), ListOffset(oq)), TRUE) = None
  /\ inflight' = [op |-> "list", req |-> [limit |-> lq, offset |-> oq],
                  response |-> ListResponse(db, ListLimit(lq), ListOffset(oq))]
  /\ UNCHANGED <<db, nextId, cache, solr, pending, writes, lastWrite, last, expired,
                 indexDown>>

ListSet ==
  /\ inflight.op = "list"
  /\ LET key == ListKey(ListLimit(inflight.req.limit), ListOffset(inflight.req.offset))
     IN  RespondWithin("list", 0, inflight.req,
                       Out("200", inflight.response, db,
                           setCache(cache, key, inflight.response, ListTTL, TRUE), {},
                           <<Call("cache.get", TRUE), Call("db.count", TRUE),
                             Call("db.page", TRUE), Call("cache.set", TRUE)>>),
                       MaxPending)
  /\ inflight' = Idle

\* The same handler with a request running between its two store queries:
\* ListCount is the handler from its cache miss to the answer of SELECT
\* COUNT(*), ListPage the rest: the page query, setCache and the response.
ListResponseOf(total, rows, limit, offset) ==
  [data |-> [i \in 1..Len(rows) |-> formatGameResponse(rows[i])],
   pagination |-> [limit |-> limit, offset |-> offset, total |-> total],
   links |-> [next |-> IF offset + limit < total THEN Some(offset + limit) ELSE None,
              prev |-> IF offset > 0 THEN Some(Max(0, offset - limit)) ELSE None]]

ListCount(lq, oq) ==
  /\ inflight = Idle
  /\ getCache(cache, ListKey(ListLimit(lq), ListOffset(oq)), TRUE) = None
  /\ inflight' = [op |-> "listCount", req |-> [limit |-> lq, offset |-> oq],
                  total |-> CountGames(db)]
  /\ UNCHANGED <<db, nextId, cache, solr, pending, writes, lastWrite, last, expired,
                 indexDown>>

ListPage ==
  /\ inflight.op = "listCount"
  /\ LET limit    == ListLimit(inflight.req.limit)
         offset   == ListOffset(inflight.req.offset)
         key      == ListKey(limit, offset)
         response == ListResponseOf(inflight.total, SelectPage(db, limit, offset),
                                    limit, offset)
     IN  RespondWithin("list", 0, inflight.req,
                       Out("200", response, db,
                           setCache(cache, key, response, ListTTL, TRUE), {},
                           <<Call("cache.get", TRUE), Call("db.count", TRUE),
                             Call("db.page", TRUE), Call("cache.set", TRUE)>>),
                       MaxPending)
  /\ inflight' = Idle

\* DELETE /api/v1/games/:id with other requests running between its awaits:
\* DeleteSelect is the handler up to the answer of its SELECT, DeleteDelete
\* the rest.
DeleteSelect(id, env) ==
  /\ inflight = Idle
  /\ IF env.dbf = 1 \/ id \notin DOMAIN db
       THEN Respond("delete", id, <<>>, DeleteGameOut(db, cache, id, env.dbf, env.cf))
       ELSE /\ inflight' = [op |-> "delete", id |-> id]
            /\ UNCHANGED <<db, nextId, cache, solr, pending, writes, lastWrite, last, expired,
                           indexDown>>

DeleteDelete(env) ==
  /\ inflight.op = "delete"
  /\ RespondWithin("delete", inflight.id, <<>>,
                   DeleteGameDeleteOut(db, cache, inflight.id, env.dbf, env.cf),
                   MaxPending)
  /\ inflight' = Idle

\* requireAuth / authorizeAdmin answer before the handler of a write route runs
AuthReject(op, token) ==
  /\ token # "ADMIN"
  /\ Respond(op, 0, [token |-> token],
             Out(IF requireAuth(token) # "next" THEN requireAuth(token)
                 ELSE authorizeAdmin(token),
                 Error("rejected"), db, cache, {}, <<>>))

\* The write routes behind their middleware, for a request with any token.
Signed(token, body) == [token |-> token, body |-> body]

PostGameAs(token, req) ==
  /\ nextId <= MaxId
  /\ Respond("post", nextId, Signed(token, req),
             Guarded(token, PostGameOut(db, cache, nextId, req, 0, {}), db, cache))

PutGameAs(token, id, req) ==
  Respond("put", id, Signed(token, req),
          Guarded(token, PutGameOut(db, cache, id, req, 0, {}), db, cache))

DeleteGameAs(token, id) ==
  Respond("delete", id, Signed(token, <<>>),
          Guarded(token, DeleteGameOut(db, cache, id, 0, {}), db, cache))

CreateGameAs(token, req) ==
  /\ nextId <= MaxId
  /\ Respond("createGame", nextId, Signed(token, req),
             CreateGameOut(db, cache, nextId, authenticateToken(token), req, 0))

\* POST /api/v1/admin/reindex.  dbf: the SELECT fails; clearOk: Solr accepts
\* the delete of *:*; addFail: the games whose add Solr refuses.
\* indexGameInSolr catches its own error, so successCount counts every game.
IdsAsc(S) == [i \in 1..Cardinality(S) |-> IdsDesc(S)[Cardinality(S) + 1 - i]]

ReindexIndex(d, index, clearOk, addFail) ==
  IF DOMAIN d = {} THEN index
  ELSE LET base  == IF clearOk THEN <<>> ELSE index
           added == DOMAIN d \ addFail
       IN  [k \in DOMAIN base \cup {IdString(i) : i \in added} |->
              IF \E i \in added : IdString(i) = k
                THEN SolrDoc(d[CHOOSE i \in added : IdString(i) = k])
                ELSE base[k]]

ReindexCalls(d, clearOk, addFail) ==
  IF DOMAIN d = {} THEN <<Call("db.select", TRUE)>>
  ELSE <<Call("db.select", TRUE), Call("solr.clear", clearOk)>>
       \o [i \in 1..Cardinality(DOMAIN d) |->
             Call("solr.add", IdsAsc(DOMAIN d)[i] \notin addFail)]
       \o <<Call("solr.commit", TRUE)>>

ReindexBody(d) ==
  IF DOMAIN d = {}
    THEN [message |-> "No games to reindex", reindexedCount |-> 0]
    ELSE [message |-> "Reindexing completed successfully",
          totalGames |-> Cardinality(DOMAIN d),
          reindexedCount |-> Cardinality(DOMAIN d)]

Reindex(token, dbf, clearOk, addFail) ==
  LET ran == Guard(token) = "next" /\ dbf = 0
  IN
  /\ solr' = IF ran THEN ReindexIndex(db, solr, clearOk, addFail) ELSE solr
  /\ last' = [op |-> "reindex", id |-> 0, req |-> Signed(token, <<>>),
              status |-> IF Guard(token) # "next" THEN Guard(token)
                         ELSE IF dbf # 0 THEN "500" ELSE "200",
              body |-> IF Guard(token) # "next" THEN GuardError(token)
                       ELSE IF dbf # 0 THEN Error("Reindexing failed")
                       ELSE ReindexBody(db),
              calls |-> IF Guard(token) # "next" THEN <<>>
                        ELSE IF dbf # 0 THEN <<Call("db.select", FALSE)>>
                        ELSE ReindexCalls(db, clearOk, addFail),
              changed |-> IF solr' # solr THEN {"index"} ELSE {}]
  /\ UNCHANGED <<db, nextId, cache, pending, writes, lastWrite, inflight, expired,
                 indexDown>>

\* One call of a reconciliation in flight reaches Solr (ok) or fails; either
\* way the reconciliation goes on to its next call.
SolrApply(index, o) ==
  IF o.op = "add"
    THEN [k \in DOMAIN index \cup {o.id} |-> IF k = o.id THEN o.doc ELSE index[k]]
    ELSE [k \in DOMAIN index \ {o.id} |-> index[k]]

\* a reconciliation run to its end against a Solr that accepts every call
RECURSIVE SolrRun(_, _)
SolrRun(index, task) ==
  IF task = <<>> THEN index ELSE SolrRun(SolrApply(index, Head(task)), Tail(task))

SolrDeliver(task, ok) ==
  /\ task \in pending
  /\ solr' = IF ok THEN SolrApply(solr, Head(task)) ELSE solr
  /\ pending' = (pending \ {task}) \cup (IF Len(task) > 1 THEN {Tail(task)} ELSE {})
  /\ UNCHANGED <<db, nextId, cache, writes, lastWrite, last, inflight, expired, indexDown>>

\* The write handlers answering while the index calls of earlier requests
\* are still on their way: the handlers start them and do not await them.
RespondOverlapping(op, id, req, out) ==
  /\ RespondWithin(op, id, req, out, MaxInFlight)
  /\ UNCHANGED inflight

PostGameOverlapping(req) ==
  /\ nextId <= MaxId
  /\ RespondOverlapping("post", nextId, req, PostGameOut(db, cache, nextId, req, 0, {}))

PutGameOverlapping(id, req) ==
  RespondOverlapping("put", id, req, PutGameOut(db, cache, id, req, 0, {}))

DeleteGameOverlapping(id) ==
  RespondOverlapping("delete", id, <<>>, DeleteGameOut(db, cache, id, 0, {}))

\* Solr goes down, and comes back
IndexOutage ==
  /\ ~indexDown
  /\ indexDown' = TRUE
  /\ UNCHANGED <<db, nextId, cache, solr, pending, writes, lastWrite, last, inflight, expired>>

IndexRecovery ==
  /\ indexDown
  /\ indexDown' = FALSE
  /\ UNCHANGED <<db, nextId, cache, solr, pending, writes, lastWrite, last, inflight, expired>>

\* Time passes: Redis counts every entry's TTL down and drops the entries
\* whose TTL has run out (an entry set without a TTL, ttl = -1, stays).
TickSeconds == 30
MaxAge      == 2 * ListTTL

\* Redis keeping the entries whose TTL has run out
AgedKeepsExpired(c, dt) ==
  [k \in DOMAIN c |->
     [val |-> c[k].val,
      ttl |-> IF c[k].ttl < 0 THEN c[k].ttl ELSE Max(c[k].ttl - dt, 1),
      age |-> Min(c[k].age + dt, MaxAge)]]

Aged(c, dt) ==
  [k \in {j \in DOMAIN c : c[j].ttl < 0 \/ c[j].ttl > dt} |->
     [val |-> c[k].val,
      ttl |-> IF c[k].ttl < 0 THEN c[k].ttl ELSE c[k].ttl - dt,
      age |-> Min(c[k].age + dt, MaxAge)]]

Tick ==
  /\ cache' = Aged(cache, TickSeconds)
  /\ expired' = expired \cup (DOMAIN cache \ DOMAIN cache')
  /\ lastWrite' = [lastWrite EXCEPT !.age = Min(@ + TickSeconds, MaxAge)]
  /\ UNCHANGED <<db, nextId, solr, pending, writes, last, inflight, indexDown>>

Next ==
  \/ \E oq \in ListParams, env \in Envs : GetGames(None, oq, env)
  \/ \E id \in Ids, f \in 0..1 : GetGame(id, Env(f, {}))
  \/ \E req \in PlainCreateReqs, env \in Envs : PostGame(req, env)
  \/ \E id \in Ids, req \in PlainPutReqs, env \in Envs : PutGame(id, req, env)
  \/ \E id \in Ids, env \in Envs : DeleteGame(id, env)
  \/ \E req \in PlainCreateReqs, f \in 0..1 : CreateGame("ADMIN", req, Env(f, {}))
  \/ \E task \in pending, ok \in BOOLEAN : SolrDeliver(task, ok)

Spec == Init /\ [][Next]_vars

\* The write routes on every kind of request body and token, one request at
\* a time; nothing is read, so the cache stays empty.
NextValidate ==
  \/ \E req \in CreateReqs, f \in 0..1 : PostGame(req, Env(f, {}))
  \/ \E id \in Ids, req \in PutReqs, f \in 0..2 : PutGame(id, req, Env(f, {}))
  \/ \E id \in Ids, f \in 0..2 : DeleteGame(id, Env(f, {}))
  \/ \E req \in CreateReqs, f \in 0..1 : CreateGame("ADMIN", req, Env(f, {}))
  \/ \E token \in Tokens \ {"ADMIN"} : CreateGame(token, CHOOSE r \in PlainCreateReqs : TRUE, Healthy)
  \/ \E op \in {"post", "put", "delete"}, token \in Tokens : AuthReject(op, token)
  \/ \E task \in pending, ok \in BOOLEAN : SolrDeliver(task, ok)

SpecValidate == Init /\ [][NextValidate]_vars

\* The search route beside the REST writes that feed the index.
NextSearch ==
  \/ \E p \in SearchInputs, sf \in BOOLEAN, env \in SearchEnvs :
       \E ans \in SolrSelect(solr, p) : SearchGames(p, ans, sf, env)
  \/ \E req \in PlainCreateReqs, env \in Envs : PostGame(req, env)
  \/ \E id \in Ids, req \in PlainPutReqs : PutGame(id, req, Healthy)
  \/ \E id \in Ids : DeleteGame(id, Healthy)
  \/ \E task \in pending, ok \in BOOLEAN : SolrDeliver(task, ok)

SpecSearch == Init /\ [][NextSearch]_vars

\* Search requests of every query text and sort, through the GraphQL resolver
\* and through the REST route with the cache down, so that each reaches Solr.
NextSort ==
  \/ \E p \in SortInputs, sf \in BOOLEAN :
       \E ans \in SolrSelect(solr, p) : searchGames(p, ans, sf)
  \/ \E p \in SortInputs, sf \in BOOLEAN :
       \E ans \in SolrSelect(solr, p) : SearchGames(p, ans, sf, CacheDown)
  \/ \E req \in PlainCreateReqs : PostGame(req, Healthy)
  \/ \E task \in pending : SolrDeliver(task, TRUE)

SpecSort == Init /\ [][NextSort]_vars

\* An update whose awaits other requests may run between, beside creates,
\* deletes and reads of single games.
NextRace ==
  \/ \E id \in Ids, req \in PlainPutReqs, f \in 0..1 : PutSelect(id, req, Env(f, {}))
  \/ \E env \in {Healthy, Env(2, {}), Env(0, {1})} : PutUpdate(env)
  \/ \E req \in PlainCreateReqs : PostGame(req, Healthy)
  \/ \E id \in Ids, f \in 0..2 : DeleteGame(id, Env(f, {}))
  \/ \E id \in Ids : GetGame(id, Healthy)
  \/ \E task \in pending, ok \in BOOLEAN : SolrDeliver(task, ok)

SpecRace == Init /\ [][NextRace]_vars

\* List requests racing creates and updates while time passes.
NextStale ==
  \/ ListQuery(None, None)
  \/ ListSet
  \/ \E oq \in ListParams : GetGames(None, oq, Healthy)
  \/ \E req \in PlainCreateReqs : PostGame(req, Healthy)
  \/ \E id \in Ids, req \in PlainPutReqs : PutGame(id, req, Healthy)
  \/ \E task \in pending : SolrDeliver(task, TRUE)
  \/ Tick

SpecStale == Init /\ [][NextStale]_vars

\* List requests with creates and deletes between their two store queries.
NextCount ==
  \/ \E lq \in ListParams, oq \in ListParams : ListCount(lq, oq)
  \/ ListPage
  \/ \E req \in PlainCreateReqs : PostGame(req, Healthy)
  \/ \E id \in Ids : DeleteGame(id, Healthy)
  \/ \E task \in pending : SolrDeliver(task, TRUE)

SpecCount == Init /\ [][NextCount]_vars

\* Every write route and the reindex route, asked with every kind of token.
NextAuth ==
  \/ \E token \in Tokens, req \in PlainCreateReqs : PostGameAs(token, req)
  \/ \E token \in Tokens, id \in Ids, req \in PlainPutReqs : PutGameAs(token, id, req)
  \/ \E token \in Tokens, id \in Ids : DeleteGameAs(token, id)
  \/ \E token \in Tokens, req \in PlainCreateReqs : CreateGameAs(token, req)
  \/ \E token \in Tokens : Reindex(token, 0, TRUE, {})
  \/ \E oq \in ListParams : GetGames(None, oq, Healthy)
  \/ \E task \in pending, ok \in BOOLEAN : SolrDeliver(task, ok)

SpecAuth == Init /\ [][NextAuth]_vars

\* Creates and deletes whose cache calls fail one at a time, over a cache that
\* holds list pages and search results.
PurgeEnvs == {Env(0, s) : s \in {{}, {1}, {2}, {3}, {4}}}

NextPurge ==
  \/ GetGames(None, None, Healthy)
  \/ \E ans \in SolrSelect(solr, NoParams) : SearchGames(NoParams, ans, FALSE, Healthy)
  \/ \E req \in PlainCreateReqs, env \in PurgeEnvs : PostGame(req, env)
  \/ \E id \in Ids, env \in PurgeEnvs : DeleteGame(id, env)
  \/ \E task \in pending : SolrDeliver(task, TRUE)

SpecPurge == Init /\ [][NextPurge]_vars

\* A delete whose awaits other deletes and creates may run between.
NextDeleteRace ==
  \/ \E id \in Ids, f \in 0..1 : DeleteSelect(id, Env(f, {}))
  \/ \E env \in {Healthy, Env(2, {}), Env(0, {1})} : DeleteDelete(env)
  \/ \E id \in Ids : DeleteGame(id, Healthy)
  \/ \E req \in PlainCreateReqs : PostGame(req, Healthy)
  \/ \E id \in Ids : GetGame(id, Healthy)
  \/ \E task \in pending, ok \in BOOLEAN : SolrDeliver(task, ok)

SpecDeleteRace == Init /\ [][NextDeleteRace]_vars

\* List and search requests whose store query or index query fails.
NextReadFail ==
  \/ \E oq \in ListParams, f \in 0..2 : GetGames(None, oq, Env(f, {}))
  \/ \E p \in SearchInputs, sf \in BOOLEAN :
       \E ans \in SolrSelect(solr, p) : SearchGames(p, ans, sf, Healthy)
  \/ \E req \in PlainCreateReqs : PostGame(req, Healthy)
  \/ \E task \in pending : SolrDeliver(task, TRUE)

SpecReadFail == Init /\ [][NextReadFail]_vars

\* The reindex route over stores and indexes that creates, deletes and lost
\* index calls have left apart.
NextReindex ==
  \/ \E f \in 0..1, clearOk \in BOOLEAN, addFail \in SUBSET Ids :
       Reindex("ADMIN", f, clearOk, addFail)
  \/ \E req \in PlainCreateReqs : PostGame(req, Healthy)
  \/ \E id \in Ids : DeleteGame(id, Healthy)
  \/ \E task \in pending, ok \in BOOLEAN : SolrDeliver(task, ok)

SpecReindex == Init /\ [][NextReindex]_vars

\* Searches between a write's purge and the arrival of its index call, while
\* time passes.
StaleSearchInputs == {NoParams, [NoParams EXCEPT !.q = Some("A")]}

NextSearchStale ==
  \/ \E p \in StaleSearchInputs :
       \E ans \in SolrSelect(solr, p) : SearchGames(p, ans, FALSE, Healthy)
  \/ \E req \in PlainCreateReqs : PostGame(req, Healthy)
  \/ \E id \in Ids : DeleteGame(id, Healthy)
  \/ \E task \in pending : SolrDeliver(task, TRUE)
  \/ Tick

SpecSearchStale == Init /\ [][NextSearchStale]_vars

\* Writes whose index calls overlap, every call accepted by Solr.
NextIndex ==
  \/ \E req \in PlainCreateReqs : PostGameOverlapping(req)
  \/ \E id \in Ids, req \in PlainPutReqs : PutGameOverlapping(id, req)
  \/ \E id \in Ids : DeleteGameOverlapping(id)
  \/ \E task \in pending : SolrDeliver(task, TRUE)

SpecIndex == Init /\ [][NextIndex]_vars

\* Searches through both routes while Solr goes down and comes back.
NextOutage ==
  \/ \E p \in SearchInputs, env \in {Healthy, Env(0, {1})} :
       \E ans \in SolrSelect(solr, p) : SearchGames(p, ans, indexDown, env)
  \/ \E p \in SearchInputs :
       \E ans \in SolrSelect(solr, p) : searchGames(p, ans, indexDown)
  \/ \E req \in PlainCreateReqs : PostGame(req, Healthy)
  \/ \E task \in pending : SolrDeliver(task, ~indexDown)
  \/ IndexOutage
  \/ IndexRecovery

SpecOutage == Init /\ [][NextOutage]_vars

\* Pages of the list and of the search over a catalog that grows and shrinks.
NextPage ==
  \/ \E lq \in PageLimits, oq \in PageOffsets : GetGames(lq, oq, CacheDown)
  \/ \E oq \in ListParams : GetGames(Some(1), oq, Healthy)
  \/ \E p \in PageInputs, sf \in BOOLEAN :
       \E ans \in SolrSelect(solr, p) : SearchGames(p, ans, sf, CacheDown)
  \/ \E req \in PlainCreateReqs : PostGame(req, Healthy)
  \/ \E id \in Ids : DeleteGame(id, Healthy)
  \/ \E task \in pending : SolrDeliver(task, TRUE)

SpecPage == Init /\ [][NextPage]_vars

\* List reads and creates while time passes.
NextExpiry ==
  \/ \E oq \in ListParams, env \in {Healthy, Env(0, {1}), Env(0, {2})} : GetGames(None, oq, env)
  \/ \E req \in PlainCreateReqs : PostGame(req, Healthy)
  \/ \E req \in PlainCreateReqs : CreateGame("ADMIN", req, Healthy)
  \/ \E task \in pending : SolrDeliver(task, TRUE)
  \/ Tick

SpecExpiry == Init /\ [][NextExpiry]_vars

\* ------------------------------------------------------------------ properties
WriteOps == {"post", "put", "delete", "createGame"}

\* the request committed a store write
Committed(l) == "store" \in l.changed

\* no store call of the request failed to reach the store
StoreAnswered(calls) == \A x \in Range(calls) : x.c \in StoreCalls => x.err # "failed"

\* the page a list request asks for, read from the store as it is now
ListWindow(l) == SelectPage(db, ListLimit(l.req.limit), ListOffset(l.req.offset))
InWindow(id, l) == \E i \in DOMAIN ListWindow(l) : ListWindow(l)[i].id = id

\* the list body shows game id with the values the store holds
ShowsGame(body, id) ==
  \E i \in DOMAIN body.data : JSONgame(body.data[i]) = JSONgame(formatGameResponse(db[id]))

ReadsAfterUpdate ==
  /\ (last.op = "get" /\ last.id = lastWrite.id /\ last.status = "200")
       => last.body = formatGameResponse(db[last.id])
  /\ (last.op = "list" /\ last.status = "200" /\ InWindow(lastWrite.id, last))
       => ShowsGame(last.body, lastWrite.id)

C2_ListAfterCreate ==
  ( /\ lastWrite.op \in {"post", "createGame"}
    /\ lastWrite.status \in {"201", "data"}
    /\ lastWrite.cacheOk
    /\ last.op = "list" /\ last.status = "200" )
  => /\ last.body.pagination.total = CountGames(db)
     /\ InWindow(lastWrite.id, last) => ShowsGame(last.body, lastWrite.id)

C3_State ==
  /\ (last.op = "delete" /\ last.status = "404") => last.changed = {}
  /\ ( /\ last.op = "delete" /\ last.calls # <<>> /\ StoreAnswered(last.calls)
       /\ lastWrite.op = "delete" /\ lastWrite.id = last.id )
     => last.status = (IF Committed(last) THEN "200" ELSE "404")
  /\ ( /\ last.op = "get" /\ StoreAnswered(last.calls)
       /\ lastWrite.op = "delete" /\ lastWrite.id = last.id )
     => last.status = "404"

\* a delete request whose store queries were answered
C3_Step ==
  ( /\ last'.op = "delete" /\ last'.calls # <<>> /\ StoreAnswered(last'.calls)
    /\ pending \subseteq pending' )
  => IF last'.id \in DOMAIN db
       THEN last'.status = "200" /\ db' = DelRow(db, last'.id)
       ELSE last'.status = "404" /\ UNCHANGED <<db, cache, solr, pending>>

\* C3: deleteEntity on an existing id succeeds and removes the row; on an id
\* that is not (or no longer) in the store it answers NotFound and changes
\* neither the store, the cache nor the index; after the delete, getEntity of
\* that id answers NotFound.
C3_DeleteTwice == []C3_State /\ [][C3_Step]_vars

\* the second delete of an id answered NotFound while the cache held entries
C3_Witness ==
  /\ last.op = "delete" /\ last.status = "404"
  /\ lastWrite.op = "delete" /\ lastWrite.id = last.id /\ lastWrite.status = "200"
  /\ DOMAIN cache # {}

\* C4: a request that committed a store write and whose cache calls all
\* succeeded leaves no list-prefixed and no search-prefixed key in the cache.
C4_WritesPurge ==
  (last.op \in WriteOps /\ Committed(last) /\ CacheOk(last.calls))
    => keysMatching(cache, ListPattern) = {} /\ keysMatching(cache, SearchPattern) = {}

\* the step is time passing: no request is answered, the entries age
TickStep ==
  /\ cache' = Aged(cache, TickSeconds)
  /\ cache' # cache \/ lastWrite' # lastWrite
  /\ UNCHANGED <<db, pending, last>>

\* the step is a request answered by a handler, not a Solr call arriving nor
\* time passing
HandlerStep == pending \subseteq pending' /\ ~TickStep

CacheCallsOf(calls) == {x \in Range(calls) : x.c \in CacheCalls}

\* which store call of the request found the store down (0: none)
StoreFailure(calls) ==
  LET sc == SelectSeq(calls, LAMBDA x : x.c \in StoreCalls)
  IN  IF sc # <<>> /\ sc[Len(sc)].err = "failed" THEN Len(sc) ELSE 0

\* what the handler of request l answers on store d with an empty healthy cache
OnEmptyCache(l, d) ==
  LET dbf == StoreFailure(l.calls) IN
  CASE l.op = "list"   -> GetGamesOut(d, <<>>, l.req.limit, l.req.offset, dbf, {})
    [] l.op = "get"    -> GetGameOut(d, <<>>, l.id, dbf)
    [] l.op = "post"   -> PostGameOut(d, <<>>, l.id, l.req, dbf, {})
    [] l.op = "put"    -> PutGameOut(d, <<>>, l.id, l.req, dbf, {})
    [] l.op = "delete" -> DeleteGameOut(d, <<>>, l.id, dbf, {})

\* C5: a list, get, create, update or delete request all of whose cache calls
\* failed answers with the status and body, and leaves the store in the state,
\* that the same request gives on the same store with an empty healthy cache.
C5_CacheDownStep ==
  ( /\ HandlerStep
    /\ last'.op \in {"list", "get", "post", "put", "delete"}
    /\ CacheCallsOf(last'.calls) # {}
    /\ \A x \in CacheCallsOf(last'.calls) : ~x.ok )
  => /\ last'.status = OnEmptyCache(last', db).status
     /\ last'.body = OnEmptyCache(last', db).body
     /\ db' = OnEmptyCache(last', db).db

C5_CacheDown == [][C5_CacheDownStep]_vars

\* a list request whose cache calls all failed was answered from the store
\* while the cache held another page under its key
C5_Witness ==
  /\ last.op = "list" /\ last.status = "200"
  /\ Len(last.calls) = 4 /\ \A x \in CacheCallsOf(last.calls) : ~x.ok
  /\ LET key == ListKey(ListLimit(last.req.limit), ListOffset(last.req.offset))
     IN  key \in DOMAIN cache /\ JSONparse(cache[key].val) # last.body

SuccessStatus == {"200", "201", "data"}
ErrorStatus   == {"400", "401", "403", "404", "409", "500", "error"}

\* C6: a create, update or delete request that committed its store write
\* answers success, whatever became of its cache purge and its index calls.
C6_CommittedWriteSucceeds ==
  (last.op \in WriteOps /\ Committed(last)) => last.status \in SuccessStatus

\* a create answered 201 although a call of its purge failed and its index
\* add was lost
C6_Witness ==
  /\ last.op = "post" /\ last.status = "201" /\ Committed(last)
  /\ ~CacheOk(last.calls)
  /\ pending = {} /\ IdString(last.id) \notin DOMAIN solr

StoreWrites == {"db.insert", "db.update", "db.delete"}

\* the store write of the request failed or was refused
WriteFailed(calls) == \E x \in Range(calls) : x.c \in StoreWrites /\ ~x.ok

\* C7: a create, update or delete whose store write failed (a uniqueness
\* violation included) answers an error, makes no cache call and no index
\* call, and leaves store, cache and index work as they were.
C7_FailedWriteTouchesNothing ==
  (last.op \in WriteOps /\ WriteFailed(last.calls))
  => /\ last.status \in ErrorStatus
     /\ last.changed = {}
     /\ \A x \in Range(last.calls) : x.c \notin CacheCalls \cup IndexCalls

\* an update refused for a duplicate title while the cache held a list page
C7_Witness ==
  /\ last.op = "put" /\ last.status = "409" /\ WriteFailed(last.calls)
  /\ keysMatching(cache, ListPattern) # {}

\* ------------------------------------------------------------------ validation properties
ValidationMessages ==
  {"Title, genre, price, and platform are required",
   "Price must be a positive number",
   "Rating must be between 0 and 10"}

\* the answer is a validation error: REST 400, or the GraphQL error that
\* carries one of the validation messages
IsValidationError(l) ==
  \/ l.status = "400"
  \/ l.status = "error" /\ l.body.errors \in ValidationMessages

\* the request l carries a body (it passed the auth middleware)
HasBody(l) == l.op \in {"post", "put", "createGame"} /\ "price" \in DOMAIN l.req

NegativePrice(req)   == req.price # None /\ Val(req.price) < 0
RatingOutside(req)   == req.rating # None /\ (Val(req.rating) < 0 \/ Val(req.rating) > 10)
RequiredAbsent(req)  ==
  req.title = None \/ req.genre = None \/ req.price = None \/ req.platform = None

\* C8: a create or update request that carries a negative price or a rating
\* outside [0,10] is answered with a validation error and issues no store
\* query.
C8_RejectsBeforeStore ==
  (HasBody(last) /\ (NegativePrice(last.req) \/ RatingOutside(last.req)))
  => IsValidationError(last) /\ last.calls = <<>>

\* C9: a create request (REST or GraphQL, by an admin) is answered with a
\* validation error exactly when a required field is absent, the price is
\* negative or a given rating is outside [0,10].
C9_ValidationExactly ==
  (HasBody(last) /\ last.op \in {"post", "createGame"})
  => (IsValidationError(last)
        <=> \/ RequiredAbsent(last.req)
            \/ NegativePrice(last.req)
            \/ RatingOutside(last.req))

\* no two rows of the store share a title
UniqueTitles == \A i, j \in DOMAIN db : db[i].title = db[j].title => i = j

\* the store refused the write of the request for a duplicate title
DuplicateRefused(calls) == \E x \in Range(calls) : x.err = "23505"

\* C10: titles stay unique in the store, and a create or update the store
\* refuses for a duplicate title is answered 409 Conflict and leaves store,
\* cache and index as they were.
C10_UniqueTitles ==
  /\ UniqueTitles
  /\ (last.op \in WriteOps /\ DuplicateRefused(last.calls))
       => last.status = "409" /\ last.changed = {}

\* ------------------------------------------------------------------ overlapping requests
\* C11: an update request whose store queries were answered and whose game
\* is not in the store when the request completes was answered NotFound (404).
C11_UpdateOfMissingIsNotFound ==
  (last.op = "put" /\ StoreAnswered(last.calls) /\ last.id \notin DOMAIN db)
    => last.status = "404"

\* ------------------------------------------------------------------ read-through reads
\* the key the README gives the cache entry of a single game: game:{id}
EntityKey(id) == "game:" \o IdString(id)

\* C12: a getEntity answered from the store leaves the game under its
\* single-entity key in the cache, and a getEntity that finds the key in the
\* cache queries no store.
C12_GetIsReadThrough ==
  (last.op = "get" /\ last.status = "200")
  => /\ EntityKey(last.id) \in DOMAIN cache
     /\ "cache.get" \in {x.c : x \in Range(last.calls)}

\* the cache key of list request l
KeyOf(l) == ListKey(ListLimit(l.req.limit), ListOffset(l.req.offset))

StoreCallsOf(calls) == {x \in Range(calls) : x.c \in StoreCalls}

\* a list request is answered, its cache calls and store queries succeeding
ListStep ==
  /\ HandlerStep /\ last'.op = "list"
  /\ CacheOk(last'.calls) /\ StoreAnswered(last'.calls)

C13_ListStep ==
  ListStep =>
    IF KeyOf(last') \in DOMAIN cache
      THEN /\ last'.status = "200"
           /\ JSONstringify(last'.body) = cache[KeyOf(last')].val
           /\ StoreCallsOf(last'.calls) = {}
           /\ cache' = cache
      ELSE /\ last'.status = "200"
           /\ last'.body = ListResponse(db, ListLimit(last'.req.limit), ListOffset(last'.req.offset))
           /\ {x.c : x \in StoreCallsOf(last'.calls)} = {"db.count", "db.page"}
           /\ cache' = [k \in DOMAIN cache \cup {KeyOf(last')} |->
                          IF k = KeyOf(last')
                            THEN [val |-> JSONstringify(last'.body), ttl |-> ListTTL,
                                  age |-> 0]
                            ELSE cache[k]]

\* C13: a list request that finds its key in the cache answers with exactly
\* the text stored under the key and queries no store; one that misses
\* queries the store, answers with the page, and stores the text of that
\* answer under the key with a TTL of 60 seconds.
C13_ListReadThrough == [][C13_ListStep]_vars

\* a list request answered from the cache with a page that holds a game
C13_Witness ==
  /\ last.op = "list" /\ last.status = "200"
  /\ Len(last.calls) = 1 /\ last.calls[1].ok
  /\ last.body.data # <<>>
  /\ JSONstringify(last.body) = cache[KeyOf(last)].val

\* ------------------------------------------------------------------ expiry
C14_State == \A k \in DOMAIN cache : cache[k].age < ListTTL

C14_Step ==
  (HandlerStep /\ last'.op = "list" /\ CacheOk(last'.calls) /\ StoreAnswered(last'.calls))
  => /\ StoreCallsOf(last'.calls) = {}
          => KeyOf(last') \in DOMAIN cache /\ cache[KeyOf(last')].age < ListTTL
     /\ (KeyOf(last') \in expired /\ KeyOf(last') \notin DOMAIN cache)
          => /\ {x.c : x \in StoreCallsOf(last'.calls)} = {"db.count", "db.page"}
             /\ last'.body = ListResponse(db, ListLimit(last'.req.limit),
                                          ListOffset(last'.req.offset))

\* C14: no list entry stays in the cache for a TTL (60 s) or longer after it
\* was set, so none is served that old, and a list request whose entry has
\* expired queries the store again and answers with the store's page.
C14_Expiry == []C14_State /\ [][C14_Step]_vars

\* a list request missed the cache after its entry had expired, no write
\* having purged it, and stored the page again
C14_Witness ==
  /\ last.op = "list" /\ last.status = "200" /\ Len(last.calls) = 4
  /\ CacheOk(last.calls)
  /\ KeyOf(last) \in expired /\ KeyOf(last) \in DOMAIN cache
  /\ lastWrite.op \in {"none", "createGame"}

\* ------------------------------------------------------------------ search properties
SearchOps == {"search", "searchGames"}

\* the queries request l sent to Solr
SelectsOf(l) == {x \in Range(l.calls) : x.c = "solr.select"}

ExplicitSort ==
  [price_asc |-> "price asc", price_desc |-> "price desc",
   rating_desc |-> "rating desc", title_asc |-> "title asc"]

\* C15: the sort a search request sends to Solr is, with no sort parameter,
\* 'rating desc' for the query '*' or one of fewer than 3 characters and
\* 'score desc' otherwise; with sort one of price_asc, price_desc,
\* rating_desc, title_asc it is that order, whatever the query text.
C15_SortSent ==
  last.op \in SearchOps =>
    \A x \in SelectsOf(last) :
      LET q == QueryText(last.req) IN
      /\ last.req.sort = None
           => x.params.sort = (IF q = "*" \/ Len(q) < 3 THEN "rating desc" ELSE "score desc")
      /\ (last.req.sort # None /\ Val(last.req.sort) \in DOMAIN ExplicitSort)
           => x.params.sort = ExplicitSort[Val(last.req.sort)]

\* a REST search for a 3-character text and no sort went to Solr by score
C15_Witness ==
  /\ last.op = "search" /\ last.req.q = Some("abc") /\ last.req.sort = None
  /\ \E x \in SelectsOf(last) : x.ok /\ x.params.sort = "score desc"

\* the request stored its answer in the cache / was answered from the cache
StoredInCache(l) == \E x \in Range(l.calls) : x.c = "cache.set" /\ x.ok
ServedFromCache(l) == l.status = "200" /\ Len(l.calls) = 1 /\ l.calls[1].ok

C16_Step ==
  ( /\ HandlerStep
    /\ last.op = "search" /\ StoredInCache(last)
    /\ last'.op = "search" /\ ServedFromCache(last')
    /\ SearchKey(last'.req) = SearchKey(last.req) )
  => solrParams(last'.req) = solrParams(last.req)

\* C16: a search request answered from the entry the request before it stored
\* sends Solr the same query as that request: requests with different
\* queries have different cache keys.
C16_KeysSeparateQueries == [][C16_Step]_vars

PagedOps == {"list", "search"}

\* C17: in every list or search response, next is null exactly when
\* offset + limit >= total, prev is null exactly when offset = 0 and
\* otherwise points at max(0, offset - limit); a page beyond the result count
\* has empty data and next null, and a request whose backend calls all
\* succeed is answered 200.
C17_PaginationLinks ==
  last.op \in PagedOps =>
    /\ last.status = "200" =>
         LET pg == last.body.pagination
             ln == last.body.links
         IN  /\ ln.next = None <=> pg.offset + pg.limit >= pg.total
             /\ ln.next # None => ln.next = Some(pg.offset + pg.limit)
             /\ ln.prev = None <=> pg.offset = 0
             /\ ln.prev # None => ln.prev = Some(Max(0, pg.offset - pg.limit))
             /\ pg.offset >= pg.total => last.body.data = <<>> /\ ln.next = None
    /\ (\A x \in Range(last.calls) : x.ok) => last.status = "200"

\* a page beyond a non-empty result: no data, no next, a prev link
C17_Witness ==
  /\ last.op = "list" /\ last.status = "200"
  /\ last.body.pagination.total > 0
  /\ last.body.pagination.offset >= last.body.pagination.total
  /\ last.body.data = <<>>
  /\ last.body.links.next = None /\ last.body.links.prev # None

\* the step answers a search request
SearchStep == last' # last /\ last'.op \in SearchOps

SearchFailed(l) ==
  \/ l.op = "search" /\ l.status = "500" /\ l.body = Error("Search failed")
  \/ l.op = "searchGames" /\ l.status = "error" /\ l.body = GqlError("Search failed")

\* the answer is the entry the cache holds under the request's key
AnsweredFromCache(l, c) ==
  /\ l.op = "search" /\ ServedFromCache(l)
  /\ SearchKey(l.req) \in DOMAIN c
  /\ l.body = JSONparse(c[SearchKey(l.req)].val)

\* C18 as stated: while the index is down every search request is answered
\* with the degraded-search error, whatever the cache holds.
C18_DownMeansError ==
  [][(SearchStep /\ indexDown) => SearchFailed(last')]_vars

C18_Step ==
  indexDown =>
    /\ SearchStep => SearchFailed(last') \/ AnsweredFromCache(last', cache)
    /\ keysMatching(cache', SearchPattern) \subseteq keysMatching(cache, SearchPattern)

\* C18 amended: while the index is down, a search request is answered with
\* the degraded-search error unless the cache still holds an entry under its
\* key, which is then served; no search entry is stored during the outage.
C18_DownMeansErrorOrCached == [][C18_Step]_vars

\* the index is down and the last search was refused after a cache miss
C18_Witness ==
  /\ indexDown /\ last.op = "search" /\ SearchFailed(last)
  /\ Len(last.calls) = 2 /\ last.calls[1].ok /\ ~last.calls[2].ok
  /\ keysMatching(cache, SearchPattern) # {}

\* the index holds one document per game of the store, with its fields
IndexMirrorsStore ==
  /\ DOMAIN solr = {IdString(id) : id \in DOMAIN db}
  /\ \A id \in DOMAIN db : solr[IdString(id)] = SolrDoc(db[id])

\* C19: once every write request has answered and every index call it
\* started has been accepted by Solr, the index holds exactly one document
\* per game of the store, carrying the game's last committed values.
C19_IndexConverges == (pending = {} /\ inflight = Idle) => IndexMirrorsStore

\* the step answers a list request from the cache with a page that misses the
\* last committed create or update, whose invalidation had completed
StaleListServed ==
  /\ last' # last /\ last'.op = "list" /\ ServedFromCache(last')
  /\ lastWrite.op \in {"post", "put"} /\ lastWrite.status \in SuccessStatus
  /\ lastWrite.cacheOk
  /\ InWindow(lastWrite.id, last') /\ ~ShowsGame(last'.body, lastWrite.id)

\* C20 as stated: no list response missing a committed write is served later
\* than one TTL (60 s) after the write's invalidation completed.
C20_StaleWithinTtlOfWrite ==
  [][StaleListServed => lastWrite.age <= ListTTL]_vars

C20_Step ==
  StaleListServed =>
    /\ cache[KeyOf(last')].age <= lastWrite.age
    /\ cache[KeyOf(last')].age < ListTTL
    /\ cache[KeyOf(last')].ttl = ListTTL - cache[KeyOf(last')].age

\* C20 amended: a list response missing a committed write whose invalidation
\* completed comes from an entry a racing list request stored after that
\* invalidation, and is served less than one TTL (60 s) after the entry was
\* stored, when the entry expires.
C20_StaleWithinTtlOfStore == [][C20_Step]_vars

\* a page stored after the create it misses, and served from the cache
C20_Witness ==
  /\ last.op = "list" /\ ServedFromCache(last)
  /\ lastWrite.op = "post" /\ lastWrite.cacheOk
  /\ InWindow(lastWrite.id, last) /\ ~ShowsGame(last.body, lastWrite.id)
  /\ KeyOf(last) \in DOMAIN cache
  /\ cache[KeyOf(last)].age < lastWrite.age
  /\ lastWrite.age > ListTTL

\* the step is the page query of a list request and its response
PageStep == inflight.op = "listCount" /\ last' # last /\ last'.op = "list"

\* C21: the total of a list response is the row count of the store state its
\* page rows were read from.
C21_TotalMatchesPage ==
  [][PageStep => last'.body.pagination.total = CountGames(db)]_vars

\* ------------------------------------------------------------------ authorization
GuardedOps == WriteOps \cup {"reindex"}

\* the step answers a request to a write route or to the reindex route
GuardedStep == last' # last /\ last'.op \in GuardedOps

C22_Step ==
  (GuardedStep /\ last'.req.token # "ADMIN") =>
    /\ last'.status \in {"401", "403", "error"}
    /\ last'.calls = <<>>
    /\ UNCHANGED <<db, cache, solr, pending, nextId>>

\* C22: a request to a write route or to the reindex route whose token is
\* absent, invalid, or of role GUEST or USER is refused (401, 403, or the
\* GraphQL error) with no backend call made, and leaves the store, the cache
\* and the index as they were.
C22_OnlyAdminWrites == [][C22_Step]_vars

\* a registered non-admin account was refused while the store holds a game
\* and the cache a list page
C22_Witness ==
  /\ last.op \in GuardedOps /\ last.req.token = "USER" /\ last.status = "403"
  /\ DOMAIN db # {} /\ DOMAIN cache # {}

\* ------------------------------------------------------------------ order of a write
\* the positions in the request's trace of its calls to one backend
PositionsOf(calls, names) == {i \in DOMAIN calls : calls[i].c \in names}

Before(A, B) == \A i \in A, j \in B : i < j

\* C23: in a create, update or delete that commits, every store call comes
\* before the first cache call of the invalidation, and every cache call
\* before the first index call.
C23_StoreThenCacheThenIndex ==
  (last.op \in {"post", "put", "delete"} /\ Committed(last)) =>
    /\ Before(PositionsOf(last.calls, StoreCalls), PositionsOf(last.calls, CacheCalls))
    /\ Before(PositionsOf(last.calls, CacheCalls), PositionsOf(last.calls, IndexCalls))

\* ------------------------------------------------------------------ purged patterns
\* the patterns the request asked Redis the keys of
PatternsOf(l) == {x.pattern : x \in {y \in Range(l.calls) : y.c = "cache.keys"}}

\* C24: an update or delete that commits (its cache calls succeeding) purges
\* the list prefix, the search prefix and the key of its game; a create
\* purges the two prefixes only.
C24_PurgedPatterns ==
  (last.op \in {"post", "put", "delete"} /\ Committed(last) /\ CacheOk(last.calls)) =>
    /\ {ListPattern, SearchPattern} \subseteq PatternsOf(last)
    /\ last.op \in {"put", "delete"} =>
         \E pt \in PatternsOf(last) : Matches(EntityKey(last.id), pt)
    /\ last.op = "post" => PatternsOf(last) = {ListPattern, SearchPattern}

\* ------------------------------------------------------------------ reconciliation
\* C25: from any index state, updateGameInSolr(game) run twice in sequence
\* leaves the index as one run leaves it, holding the document of the game
\* under its id and the other documents untouched.
C25_UpdateIdempotent ==
  \A id \in DOMAIN db :
    LET once  == SolrRun(solr, updateGameInSolr(db[id]))
        twice == SolrRun(once, updateGameInSolr(db[id]))
    IN  /\ twice = once
        /\ IdString(id) \in DOMAIN once /\ once[IdString(id)] = SolrDoc(db[id])
        /\ \A k \in DOMAIN solr \ {IdString(id)} : k \in DOMAIN once /\ once[k] = solr[k]

\* an update answered again with the values the game already had, and its
\* reconciliation applied
C25_Witness ==
  /\ last.op = "put" /\ last.status = "200" /\ "store" \notin last.changed
  /\ "index" \in last.changed /\ pending = {}
  /\ IdString(last.id) \in DOMAIN solr /\ solr[IdString(last.id)] = SolrDoc(db[last.id])

\* ------------------------------------------------------------------ partial purge
RestWrites == {"post", "put", "delete"}

\* the step answers a REST write that committed
CommittedWriteStep == last' # last /\ last'.op \in RestWrites /\ Committed(last')

\* the patterns whose keys call and del call, if made, both succeeded
PurgedPatterns(l) ==
  {pt \in PatternsOf(l) :
     \A i \in DOMAIN l.calls :
       (l.calls[i].c = "cache.keys" /\ l.calls[i].pattern = pt) =>
         /\ l.calls[i].ok
         /\ (i < Len(l.calls) /\ l.calls[i + 1].c = "cache.del") => l.calls[i + 1].ok}

\* C26 as stated: a committed write attempts both patterns whatever cache
\* call fails, purges the keys of every pattern whose own calls succeeded,
\* and is answered with success.
C26_EveryPatternAttempted ==
  [][CommittedWriteStep =>
       /\ PatternsOf(last') = {ListPattern, SearchPattern}
       /\ \A pt \in PurgedPatterns(last') : keysMatching(cache', pt) = {}
       /\ last'.status \in SuccessStatus]_vars

C26_Step ==
  CommittedWriteStep =>
    /\ last'.status \in SuccessStatus
    /\ \A i \in DOMAIN last'.calls :
         (last'.calls[i].c \in CacheCalls /\ ~last'.calls[i].ok) => i = Len(last'.calls)
    /\ \A pt \in {ListPattern, SearchPattern} :
         IF pt \in PurgedPatterns(last')
           THEN keysMatching(cache', pt) = {}
           ELSE /\ ~CacheOk(last'.calls)
                /\ keysMatching(cache', pt) = keysMatching(cache, pt)

\* C26 amended: invalidateCache never throws, and it stops at the first cache
\* call that fails: the patterns before the failure are purged, the pattern
\* of the failure and the patterns after it keep their keys.
C26_StopsAtFirstFailure == [][C26_Step]_vars

\* a create whose first cache call failed: the search pattern was never
\* asked for and the search entry is still cached
C26_Witness ==
  /\ last.op = "post" /\ Committed(last) /\ last.status = "201"
  /\ ~CacheOk(last.calls) /\ PatternsOf(last) = {ListPattern}
  /\ keysMatching(cache, SearchPattern) # {} /\ keysMatching(cache, ListPattern) # {}

\* ------------------------------------------------------------------ concurrent deletes
\* the step is the DELETE statement of a delete request and its response
DeleteStatementStep == inflight.op = "delete" /\ inflight' = Idle

\* C27: of two deletes of the same game running at once exactly one reports
\* success: the one whose DELETE statement finds the row already deleted by
\* the other reports NotFound.
C27_OneDeleteSucceeds ==
  [][(DeleteStatementStep /\ inflight.id \notin DOMAIN db /\ StoreAnswered(last'.calls))
       => last'.status = "404"]_vars

\* ------------------------------------------------------------------ failed reads
\* the step answers a list or search request with an error
FailedReadStep == last' # last /\ last'.op \in PagedOps /\ last'.status = "500"

\* every cached value is a complete response: data, pagination, links
CacheHoldsResponses ==
  \A k \in DOMAIN cache :
    LET v == JSONparse(cache[k].val)
    IN  /\ DOMAIN v = {"data", "pagination", "links"}
        /\ Len(v.data) = Min(v.pagination.limit, Max(0, v.pagination.total - v.pagination.offset))

\* C28: a list or search request answered with an error makes no cache.set
\* call and leaves the cache as it was, and the cache never holds anything
\* but complete responses.
C28_FailedReadStoresNothing ==
  /\ [][FailedReadStep =>
          /\ cache' = cache
          /\ \A x \in Range(last'.calls) : x.c # "cache.set"]_vars
  /\ []CacheHoldsResponses

\* a search refused by the index while the cache holds a list page, and no
\* entry under the search's key
C28_Witness ==
  /\ last.op = "search" /\ last.status = "500"
  /\ \E x \in Range(last.calls) : x.c = "solr.select" /\ ~x.ok
  /\ SearchKey(last.req) \notin DOMAIN cache
  /\ keysMatching(cache, ListPattern) # {}

\* ------------------------------------------------------------------ reindex
\* the step answers a reindex request with success, every call it made
\* accepted, and no index call of a write on its way
HealthyReindexStep ==
  /\ last' # last /\ last'.op = "reindex" /\ last'.status = "200"
  /\ \A x \in Range(last'.calls) : x.ok
  /\ pending = {}

\* the adds of the request that Solr accepted
AddsAccepted(l) == {i \in DOMAIN l.calls : l.calls[i].c = "solr.add" /\ l.calls[i].ok}

\* C29: after a successful reindex against a healthy index the index holds
\* one document per game of the store and no other, the empty store
\* included, and reindexedCount is the number of adds Solr accepted.
C29_ReindexRebuilds ==
  [][HealthyReindexStep =>
       /\ IndexMirrorsStore'
       /\ last'.body.reindexedCount = Cardinality(AddsAccepted(last'))]_vars

\* ------------------------------------------------------------------ stale searches
\* the search body is an answer the index, as it is now, gives the request
FreshSearch(l) ==
  \E ans \in SolrSelect(solr, l.req) :
    l.body = JSONparse(JSONstringify(SearchResponse(ans.docs, ans.numFound, QueryText(l.req),
                                                    SearchLimit(l.req), SearchOffset(l.req))))

\* the step answers a search from the cache after the last write's purge
\* completed and its index call was applied, the index mirroring the store
SearchAfterReconciliation ==
  /\ last' # last /\ last'.op = "search" /\ ServedFromCache(last')
  /\ lastWrite.op \in RestWrites /\ lastWrite.status \in SuccessStatus /\ lastWrite.cacheOk
  /\ pending = {} /\ IndexMirrorsStore

\* C30 as stated: once the index call of a write has been applied, no search
\* answered from the cache differs from what the index now answers.
C30_NoStaleSearchAfterUpdate ==
  [][SearchAfterReconciliation => FreshSearch(last')]_vars

C30_Step ==
  (SearchAfterReconciliation /\ ~FreshSearch(last')) =>
    /\ cache[SearchKey(last'.req)].age <= lastWrite.age
    /\ cache[SearchKey(last'.req)].age < ListTTL
    /\ cache[SearchKey(last'.req)].ttl = ListTTL - cache[SearchKey(last'.req)].age

\* C30 amended: a search answered from the cache after a write's index call
\* was applied can still show the index as it was before: its entry was then
\* stored after the write's purge, and it is served for less than one TTL
\* (60 s) from when it was stored.
C30_StaleSearchWithinTtl == [][C30_Step]_vars

\* a create's document has reached the index, and a search is answered from
\* an entry stored between the create's purge and that arrival
C30_Witness ==
  /\ last.op = "search" /\ ServedFromCache(last)
  /\ lastWrite.op = "post" /\ lastWrite.cacheOk
  /\ pending = {} /\ IndexMirrorsStore
  /\ ~FreshSearch(last)
  /\ SearchKey(last.req) \in DOMAIN cache
  /\ last.body = JSONparse(cache[SearchKey(last.req)].val)
  /\ cache[SearchKey(last.req)].age <= lastWrite.age

====
